---- MODULE Spec2Model ----
(***************************************************************************)
(* Model of the GitHub contributor extractors:                             *)
(*   SimpleGitHubExtractor        (simple_extractor.py)                    *)
(*   GitHubContributorExtractor   (blockchain_contributors_extractor.py)   *)
(* The request engine (quota tracker + make_request), the entity fetchers  *)
(* and the three aggregation pipelines are modelled as one sequential      *)
(* state machine.  Time is counted in tenths of a second so that the       *)
(* 0.1 s pause of process_repository is an integer.                        *)
(***************************************************************************)
EXTENDS Integers, Sequences, FiniteSets, TLC

VARIABLES
    mode,                 \* which entry point runs (or "driver": direct calls of make_request)
    pc,                   \* position of the pipeline
    i,                    \* 1-based index of the catalog entry being processed
    j,                    \* 1-based index into top_repos (two-stage mode)
    k,                    \* 1-based index into contributors_data
    catalog,              \* self.blockchain_repos
    top_repos,            \* result of get_top_repositories_for_blockchain
    repo_info,            \* the repository being processed
    contributors_data,    \* stubs returned by the Contributor Fetcher
    results,              \* records of the repository being processed
    all_contributors,     \* the accumulated record list
    seen_usernames,       \* dedup set of the single-key modes
    unique_contributors,  \* final list of extract_all_contributors
    successful,           \* successful_orgs / successful_repos
    failed,               \* failed_orgs / failed_repos
    saves,                \* lists handed to save_to_csv, in order
    rpc,                  \* position inside make_request: idle, admit, send, ret
    url,                  \* the request of the current make_request call
    attempt,              \* loop variable of make_request
    result,               \* value returned by make_request
    log,                  \* events of the current make_request call
    now,                  \* time.time(), in tenths of a second
    last_request_time,    \* SimpleGitHubExtractor.last_request_time
    rate_limit_remaining, \* GitHubContributorExtractor.rate_limit_remaining
    rate_limit_reset,     \* GitHubContributorExtractor.rate_limit_reset
    anomalies,            \* how many more non-nominal service answers may come
    calls,                \* make_request calls issued by the driver
    entries,              \* history: what happened to each catalog entry
    stub_log,             \* history: profile fetch outcome per stub of the current repository
    not_found_warnings,   \* history: "Could not fetch details" diagnostics emitted
    profile_404,          \* history: profile requests answered 404
    quota_gets,           \* history: GETs sent to the quota-introspection endpoint
    produced,             \* history: records the current catalog entry has produced
    fetch_in,             \* Contributor Fetcher alone: the make_request result it reads
    fetch_limit,          \* Contributor Fetcher alone: its limit N
    fetch_out,            \* Contributor Fetcher alone: what it returned
    link_in,              \* extract_social_links alone: the profile it reads
    link_out,             \* extract_social_links alone: what it returned
    all_repos,            \* filter_repos: the complete repository list
    fpos,                 \* filter_repos: 1-based position of the filter loop
    filtered_repos,       \* filter_repos: owner -> kept entries
    owner_counts,         \* filter_repos: owner -> number of kept entries
    final_repos,          \* filter_repos: the generated list
    run,                  \* rerun check: 0 = a single run, else 1 (first run) or 2 (second)
    service,              \* rerun check: the mocked service, URL -> answer
    first_keys            \* rerun check: dedup keys of the first run's final list

reqvars  == <<rpc, url, attempt, result, log, now, last_request_time,
              rate_limit_remaining, rate_limit_reset, anomalies, profile_404,
              quota_gets>>
pipevars == <<pc, i, j, k, catalog, top_repos, repo_info, contributors_data, results,
              all_contributors, seen_usernames, unique_contributors, successful,
              failed, saves, entries, stub_log, not_found_warnings, produced>>
filtervars == <<all_repos, fpos, filtered_repos, owner_counts, final_repos>>
unitvars == <<link_in, link_out, filtervars>>
rerunvars == <<run, service, first_keys>>
fetchvars == <<fetch_in, fetch_limit, fetch_out, unitvars, rerunvars>>
vars == <<mode, calls, reqvars, pipevars, fetchvars>>

----------------------------------------------------------------------------
\* Bounds of the model.
MaxStubs == 2
MaxRepos == 2
MaxAnomalies == 1
ReqAnomalies == 4
MaxCalls == 2
MaxFetchLen == 11
MaxBlogLen == 3
MaxCatalog == 5
MaxRepoLen == 6
StartTime == 100005

\* Program constants.
Second == 10
max_retries == 3
min_delay == 2
RateLimitFloor == 60
QuotaInitial == 5000
DefaultContributors == 3
DataContributors == 10
RepoContributors == 10
TopRepoLimit == 5
CheckpointEvery == 5
PerOwnerLimit == 3
RequestTimeout == 30
ResetAhead == 30

----------------------------------------------------------------------------
\* Python values.
Missing == "<missing>"             \* a key the JSON object does not hold
BlogMissing == <<"<missing>">>     \* the same, for the blog field (a token sequence)
BlogNull == <<"<null>">>           \* JSON null in the blog field
EmptyStr == <<>>                   \* ''

\* A make_request result: its Python type, its items and its len().
None == [kind |-> "None", body |-> <<>>, len |-> 0]
List(items) == [kind |-> "list", body |-> items, len |-> Len(items)]
Dict(item) == [kind |-> "dict", body |-> <<item>>, len |-> 2]
ErrorObject == [kind |-> "dict", body |-> <<>>, len |-> 1]   \* {"message": ...}
Raised == [kind |-> "raise", body |-> <<>>, len |-> 0]

\* Python truthiness of a make_request result: None, [] and {} are falsy.
Truthy(r) == r.kind \notin {"None", "raise"} /\ r.len > 0

\* dict.get(key, default)
DictGet(v, default) == IF v = BlogMissing THEN default ELSE v

Max(a, b) == IF a >= b THEN a ELSE b

RECURSIVE Pow2(_)
Pow2(n) == IF n = 0 THEN 1 ELSE 2 * Pow2(n - 1)

\* int(time.time()): whole seconds of a time given in tenths.
IntTime(t) == t \div Second

Extractor == IF mode \in {"run_extraction", "two_stage", "driver_simple", "fetch_simple",
                           "fetch_repos", "silent_simple"}
             THEN "Simple" ELSE "GitHub"

----------------------------------------------------------------------------
\* The service's possible answers.
Logins == {"alice", "bob"}
UserStub(l) == [login |-> l, type |-> "User"]
BotStub == [login |-> "ci-bot", type |-> "Bot"]
BadStub == [login |-> Missing, type |-> "User"]

\* Contributor lists the service returns: the contributors of a repository
\* in contribution order, any of them left out, at most MaxStubs of them.
StubOrder == <<UserStub("alice"), BotStub, UserStub("bob")>>
RECURSIVE SubSeqs(_)
SubSeqs(s) == IF s = <<>> THEN {<<>>}
              ELSE LET rest == SubSeqs(Tail(s))
                   IN rest \cup {<<Head(s)>> \o t : t \in rest}
StubLists == {s \in SubSeqs(StubOrder) : Len(s) <= MaxStubs}

SeqsUpTo(S, n) == UNION {[1..m -> S] : m \in 0..n}

LinkedinUrl == <<"https://www.", "linkedin.com", "/in/alice">>
SiteUrl == <<"https://", "bob.dev">>
BlogOf(l) == IF l = "alice" THEN LinkedinUrl ELSE SiteUrl
Profile(l, blog) == [login |-> l, blog |-> blog]

RepoData(n) == [name |-> n, stars |-> IF n = "r1" THEN 9 ELSE 5]
RepoLists == {<<>>, <<RepoData("r1")>>, <<RepoData("r1"), RepoData("r2")>>}

\* 200 answers the service normally gives for a request.
NominalPayloads(u) ==
    CASE u.kind = "contributors" -> {List(s) : s \in StubLists}
      [] u.kind = "user" -> {Dict(Profile(u.a, BlogOf(u.a)))}
      [] u.kind = "repos" -> {List(s) : s \in {r \in RepoLists : Len(r) <= MaxRepos}}

\* 200 answers of an unusual shape: an object where a list is expected, a
\* stub without login, a profile whose blog is null or absent.
OddPayloads(u) ==
    CASE u.kind = "contributors" -> {ErrorObject, List(<<BadStub>>),
                                     List(<<UserStub("alice"), BadStub>>)}
      [] u.kind = "user" -> {Dict(Profile(u.a, BlogNull)), Dict(Profile(u.a, BlogMissing))}
      [] u.kind = "repos" -> {ErrorObject}

\* X-RateLimit-Reset of a 403 answer: absent, not a number, or an epoch
\* (seconds) 30 s in the past, 30 s ahead or 90 s ahead.
Headers == {"absent", "malformed", "past", "soon", "late"}

\* Direct calls of make_request see every kind of faulty answer; the pipeline
\* runs see one of each class (rate-limited, not found, transient).
Detailed == mode \in {"driver_simple", "driver_github"}
FaultHeaders == IF Detailed THEN Headers ELSE {"absent"}
FaultKinds == IF Detailed THEN {"404", "500", "exception", "badjson"} ELSE {"404", "500"}
HeaderOffset(h) == CASE h = "past" -> 0 - 30 [] h = "soon" -> 30 [] h = "late" -> 90

\* Direct calls of make_request against a service that may also never answer.
Silent == mode \in {"silent_simple", "silent_github"}

\* What one GET can come back with; odd marks an answer outside normal service.
\* kind "silent": the service accepts the connection and sends nothing.
Outcome(kind, payload, header, odd) ==
    [kind |-> kind, payload |-> payload, header |-> header, odd |-> odd]
Outcomes(u, budget) ==
    {Outcome("200", p, "absent", FALSE) : p \in NominalPayloads(u)}
    \cup (IF budget = 0 THEN {} ELSE
          {Outcome("200", p, "absent", TRUE) : p \in OddPayloads(u)}
          \cup {Outcome("403", None, h, TRUE) : h \in FaultHeaders}
          \cup {Outcome(c, None, "absent", TRUE) : c \in FaultKinds}
          \cup (IF Silent THEN {Outcome("silent", None, "absent", TRUE)} ELSE {}))

\* What the service answers to a GET of u: anything it may answer, or, under
\* a deterministic mock, the one answer fixed for u.
Answers(u) == IF run = 0 THEN Outcomes(u, anomalies) ELSE {service[u]}

StatusCode(o) == CASE o.kind = "200" -> 200
                   [] o.kind = "badjson" -> 200
                   [] o.kind = "403" -> 403
                   [] o.kind = "404" -> 404
                   [] o.kind = "500" -> 500
                   [] o.kind = "exception" -> 0
                   [] o.kind = "silent" -> 0

\* Answers of the quota-introspection endpoint: the full budget, a nearly
\* used-up budget, or no usable answer (non-200 or an exception).
QuotaOutcomes(budget) ==
    {[kind |-> "full", remaining |-> QuotaInitial, odd |-> FALSE]}
    \cup (IF budget = 0 THEN {} ELSE
          {[kind |-> "low", remaining |-> r, odd |-> TRUE] : r \in {0, 1}}
          \cup {[kind |-> "fail", remaining |-> 0, odd |-> TRUE]})

Ev(e, n) == <<e, n>>
Url(kind, a, b) == [kind |-> kind, a |-> a, b |-> b]

----------------------------------------------------------------------------
\* The request engine.

\* Entry of make_request(url); dt is time the caller slept just before.
Call(u, dt) ==
    /\ rpc' = "admit"
    /\ url' = u
    /\ attempt' = 0
    /\ result' = None
    /\ log' = <<>>
    /\ now' = now + dt
    /\ UNCHANGED <<last_request_time, rate_limit_remaining, rate_limit_reset, anomalies,
                   profile_404, quota_gets>>

\* SimpleGitHubExtractor.respect_rate_limit
respect_rate_limit ==
    /\ rpc = "admit"
    /\ Extractor = "Simple"
    /\ LET since == now - last_request_time
           sleep_time == IF since < min_delay * Second
                         THEN min_delay * Second - since ELSE 0
       IN /\ now' = now + sleep_time
          /\ last_request_time' = now + sleep_time
          /\ log' = log \o <<Ev("admit", 0)>>
                        \o (IF sleep_time > 0 THEN <<Ev("sleep", sleep_time)>> ELSE <<>>)
    /\ rpc' = "send"
    /\ UNCHANGED <<url, attempt, result, rate_limit_remaining, rate_limit_reset, anomalies,
                   profile_404, quota_gets>>
    /\ UNCHANGED <<mode, calls, pipevars, fetchvars>>

\* GitHubContributorExtractor.check_rate_limit
check_rate_limit ==
    /\ rpc = "admit"
    /\ Extractor = "GitHub"
    /\ \E q \in QuotaOutcomes(anomalies) :
         LET wait_time == IF rate_limit_remaining <= 1
                          THEN Max(0, rate_limit_reset - IntTime(now)) ELSE 0
             t == now + wait_time * Second
         IN /\ now' = t
            /\ log' = log \o <<Ev("admit", 0)>>
                          \o (IF wait_time > 0 THEN <<Ev("sleep", wait_time * Second)>> ELSE <<>>)
                          \o <<Ev("quota", IF q.kind = "fail" THEN 0 ELSE 200)>>
            /\ IF q.kind = "fail"
               THEN UNCHANGED <<rate_limit_remaining, rate_limit_reset>>
               ELSE /\ rate_limit_remaining' = q.remaining
                    /\ rate_limit_reset' = IntTime(t) + ResetAhead
            /\ anomalies' = IF q.odd THEN anomalies - 1 ELSE anomalies
    /\ rpc' = "send"
    /\ quota_gets' = quota_gets + 1
    /\ UNCHANGED <<url, attempt, result, last_request_time, profile_404>>
    /\ UNCHANGED <<mode, calls, pipevars, fetchvars>>

\* What make_request does with the answer of one attempt:
\*   act "return": leave the call with value; act "continue": next loop round;
\*   sleep: the time.sleep made first (0: none); dec: quota estimate decrement.
Step(act, value, sleep, dec) == [act |-> act, value |-> value, sleep |-> sleep, dec |-> dec]

\* Backoff without the retry: the first transient fault ends the call.
Backoff_GiveUp(a) == Step("return", None, 0, 0)

\* Backoff sleeping one second before every retry.
Backoff_FixedDelay(a) == IF a < max_retries - 1
                         THEN Step("continue", None, 1 * Second, 0)
                         ELSE Step("return", None, 0, 0)

\* "if attempt < max_retries - 1: time.sleep(2 ** attempt); continue / return None"
Backoff(a) == IF a < max_retries - 1
              THEN Step("continue", None, Pow2(a) * Second, 0)
              ELSE Step("return", None, 0, 0)

\* RateLimitWait with max(0, ...) in place of max(60, ...).
RateLimitWait_NoFloor(header, t) ==
    LET reset_time == IF header = "absent"
                      THEN IntTime(t + RateLimitFloor * Second)
                      ELSE IntTime(t) + HeaderOffset(header)
    IN Max(0, reset_time - IntTime(t))

\* "reset_time = int(headers.get('X-RateLimit-Reset', time.time() + 60))
\*  wait_time = max(60, reset_time - int(time.time()))", in seconds
RateLimitWait(header, t) ==
    LET reset_time == IF header = "absent"
                      THEN IntTime(t + RateLimitFloor * Second)
                      ELSE IntTime(t) + HeaderOffset(header)
    IN Max(RateLimitFloor, reset_time - IntTime(t))

\* SimpleClassify without the 404 branch: a 404 falls to "status_code != 200".
SimpleClassify_Retry404(o, a, t) ==
    CASE o.kind = "403" ->
           IF o.header = "malformed"
           THEN Backoff(a)
           ELSE Step("continue", None, RateLimitWait(o.header, t) * Second, 0)
      [] o.kind = "404" -> Backoff(a)
      [] o.kind = "500" -> Backoff(a)
      [] o.kind = "200" -> Step("return", o.payload, 0, 0)
      [] o.kind = "badjson" -> Backoff(a)
      [] o.kind = "exception" -> Backoff(a)

\* One round of the loop of SimpleGitHubExtractor.make_request
SimpleClassify(o, a, t) ==
    CASE o.kind = "403" ->
           IF o.header = "malformed"
           THEN Backoff(a)       \* int() raises ValueError: "except Exception"
           ELSE Step("continue", None, RateLimitWait(o.header, t) * Second, 0)
      [] o.kind = "404" -> Step("return", None, 0, 0)
      [] o.kind = "500" -> Backoff(a)
      [] o.kind = "200" -> Step("return", o.payload, 0, 0)
      [] o.kind = "badjson" -> Backoff(a)    \* response.json() raises inside the try
      [] o.kind = "exception" -> Backoff(a)
      \* "self.session.get(url, timeout=30)": requests raises Timeout, a
      \* RequestException, once the wait is over
      [] o.kind = "silent" -> Backoff(a)

\* GitHubClassify with response.json() outside the try: a decode error leaves the call.
GitHubClassify_JsonOutsideTry(o, a, t) ==
    CASE o.kind = "403" -> Step("return", None, 0, 0)
      [] o.kind = "404" -> Step("return", None, 0, 0)
      [] o.kind = "500" -> Backoff(a)
      [] o.kind = "200" -> Step("return", o.payload, 0, 1)
      [] o.kind = "badjson" -> Step("return", Raised, 0, 1)
      [] o.kind = "exception" -> Backoff(a)

\* GitHubClassify taking one off the quota estimate for a 404 answer as well.
GitHubClassify_CountNotFound(o, a, t) ==
    CASE o.kind = "403" -> Step("return", None, 0, 0)
      [] o.kind = "404" -> Step("return", None, 0, 1)
      [] o.kind = "500" -> Backoff(a)
      [] o.kind = "200" -> Step("return", o.payload, 0, 1)
      [] o.kind = "badjson" -> [Backoff(a) EXCEPT !.dec = 1]
      [] o.kind = "exception" -> Backoff(a)

\* One round of the loop of GitHubContributorExtractor.make_request
GitHubClassify(o, a, t) ==
    CASE o.kind = "403" -> Step("return", None, 0, 0)
      [] o.kind = "404" -> Step("return", None, 0, 0)
      [] o.kind = "500" -> Backoff(a)
      [] o.kind = "200" -> Step("return", o.payload, 0, 1)
      [] o.kind = "badjson" -> [Backoff(a) EXCEPT !.dec = 1]
      [] o.kind = "exception" -> Backoff(a)
      \* "session.timeout = 30; response = session.get(url)": a Session reads
      \* no timeout attribute and get is given none, so the read never ends
      [] o.kind = "silent" -> Step("block", None, 0, 0)

\* Time make_request waits for the answer o: the timeout when none comes.
Waited(o) == IF o.kind = "silent" THEN RequestTimeout * Second ELSE 0

\* The loop "for attempt in range(max_retries)" around one classified round.
Round(o, c) ==
    /\ now' = now + (IF c.act = "block" THEN 0 ELSE Waited(o)) + c.sleep
    /\ log' = log \o <<Ev("get", attempt)>>
                  \o (IF c.act = "block" THEN <<>> ELSE <<Ev("resp", StatusCode(o))>>)
                  \o (IF o.kind = "silent" /\ c.act # "block"
                      THEN <<Ev("timed_out", Waited(o))>> ELSE <<>>)
                  \o (IF o.kind = "badjson" THEN <<Ev("decode_error", 0)>> ELSE <<>>)
                  \o (IF o.kind = "403" /\ o.header = "malformed"
                      THEN <<Ev("bad_header", 0)>> ELSE <<>>)
                  \o (IF c.sleep > 0 THEN <<Ev("sleep", c.sleep)>> ELSE <<>>)
    /\ anomalies' = IF o.odd THEN anomalies - 1 ELSE anomalies
    /\ rate_limit_remaining' = rate_limit_remaining - c.dec
    /\ profile_404' = IF url.kind = "user" /\ o.kind = "404"
                      THEN profile_404 + 1 ELSE profile_404
    /\ quota_gets' = quota_gets
    /\ IF c.act = "continue" /\ attempt + 1 < max_retries
       THEN /\ rpc' = "send"
            /\ attempt' = attempt + 1
            /\ result' = result
       ELSE /\ rpc' = IF c.act = "block" THEN "blocked" ELSE "ret"
            /\ attempt' = attempt
            /\ result' = IF c.act = "return" THEN c.value ELSE None
    /\ UNCHANGED <<url, last_request_time, rate_limit_reset>>
    /\ UNCHANGED <<mode, calls, pipevars, fetchvars>>

\* Simple_make_request with a 403 answer waited out and asked again without
\* using up an attempt.
Simple_make_request_UncountedRateLimit ==
    /\ rpc = "send"
    /\ Extractor = "Simple"
    /\ \E o \in Answers(url) :
         IF o.kind = "403" /\ o.header # "malformed"
         THEN /\ now' = now + RateLimitWait(o.header, now) * Second
              /\ log' = log \o <<Ev("get", attempt), Ev("resp", 403),
                                  Ev("sleep", RateLimitWait(o.header, now) * Second)>>
              /\ anomalies' = anomalies - 1
              /\ rpc' = "send"
              /\ UNCHANGED <<url, attempt, result, last_request_time,
                             rate_limit_remaining, rate_limit_reset, profile_404,
                             quota_gets>>
              /\ UNCHANGED <<mode, calls, pipevars, fetchvars>>
         ELSE Round(o, SimpleClassify(o, attempt, now))

Simple_make_request ==
    /\ rpc = "send"
    /\ Extractor = "Simple"
    /\ \E o \in Answers(url) : Round(o, SimpleClassify(o, attempt, now))

GitHub_make_request ==
    /\ rpc = "send"
    /\ Extractor = "GitHub"
    /\ \E o \in Answers(url) : Round(o, GitHubClassify(o, attempt, now))

----------------------------------------------------------------------------
\* The entity fetchers, as functions of the make_request result.

\* Take without the slice "[:n]".
Take_NoLimit(s, n) == s
Take(s, n) == SubSeq(s, 1, IF Len(s) < n THEN Len(s) ELSE n)
IsUser(c) == c.type = "User"

\* What a fetcher hands back: a list, or an exception that leaves it.
Returned(list) == [raised |-> FALSE, list |-> list]
Thrown == [raised |-> TRUE, list |-> <<>>]

\* "top_users = [c['login'] for c in contributors]" raises KeyError on a stub
\* without login.
LoginsReadable(contributors) ==
    \A n \in 1..Len(contributors) : contributors[n].login # Missing

\* get_top_contributors without the isinstance test: an object is iterated as
\* if it were a list and c.get fails.
get_top_contributors_NoShapeCheck(data, max_contributors) ==
    IF ~Truthy(data)
    THEN Returned(<<>>)
    ELSE IF data.kind # "list"
         THEN Thrown
         ELSE LET contributors == Take(SelectSeq(data.body, IsUser), max_contributors)
              IN IF LoginsReadable(contributors) THEN Returned(contributors) ELSE Thrown

\* get_top_contributors raising on an answer that holds nothing.
get_top_contributors_RaiseOnEmpty(data, max_contributors) ==
    IF ~Truthy(data)
    THEN Thrown
    ELSE IF data.kind # "list"
         THEN Returned(<<>>)
         ELSE LET contributors == Take(SelectSeq(data.body, IsUser), max_contributors)
              IN IF LoginsReadable(contributors) THEN Returned(contributors) ELSE Thrown

\* SimpleGitHubExtractor.get_top_contributors, after make_request
get_top_contributors(data, max_contributors) ==
    IF ~Truthy(data) \/ data.kind # "list"
    THEN Returned(<<>>)
    ELSE LET contributors == Take(SelectSeq(data.body, IsUser), max_contributors)
         IN IF LoginsReadable(contributors) THEN Returned(contributors) ELSE Thrown

\* GitHubContributorExtractor.get_repo_contributors, after make_request
get_repo_contributors(data) ==
    IF ~Truthy(data)
    THEN Returned(<<>>)
    ELSE IF data.kind = "list"
         THEN LET contributors == Take(SelectSeq(data.body, IsUser), RepoContributors)
              IN IF LoginsReadable(contributors) THEN Returned(contributors) ELSE Thrown
         ELSE Returned(<<>>)

FullName(owner, name) ==
    IF owner = "o1" THEN (IF name = "r1" THEN "o1/r1" ELSE "o1/r2")
                    ELSE (IF name = "r1" THEN "o2/r1" ELSE "o2/r2")

\* SimpleGitHubExtractor.get_top_repositories_for_blockchain, after make_request
get_top_repositories_for_blockchain(data, owner, limit) ==
    IF ~Truthy(data)
    THEN <<>>
    ELSE IF data.kind = "list"
         THEN LET d == Take(data.body, limit)
              IN [n \in 1..Len(d) |->
                     [owner |-> owner, repo |-> d[n].name,
                      name |-> FullName(owner, d[n].name), stars |-> d[n].stars]]
         ELSE <<>>

\* "'linkedin.com' in blog"
HasLinkedin(blog) ==
    \/ \E n \in 1..Len(blog) : blog[n] = "linkedin.com"
    \/ \E n \in 1..(Len(blog) - 1) : blog[n] = "linkedin" /\ blog[n + 1] = ".com"

\* extract_social_links keeping the link in website whatever it holds.
extract_social_links_AlwaysWebsite(user_data) ==
    LET blog == DictGet(user_data.blog, EmptyStr)
    IN IF blog = BlogNull
       THEN [raised |-> TRUE, linkedin |-> EmptyStr, website |-> EmptyStr, blog |-> blog]
       ELSE [raised |-> FALSE,
             linkedin |-> IF HasLinkedin(blog) THEN blog ELSE EmptyStr,
             website |-> blog,
             blog |-> blog]

\* GitHubContributorExtractor.extract_social_links; the substring test on
\* None raises TypeError.
extract_social_links(user_data) ==
    LET blog == DictGet(user_data.blog, EmptyStr)
    IN IF blog = BlogNull
       THEN [raised |-> TRUE, linkedin |-> EmptyStr, website |-> EmptyStr, blog |-> blog]
       ELSE [raised |-> FALSE,
             linkedin |-> IF HasLinkedin(blog) THEN blog ELSE EmptyStr,
             website |-> IF ~HasLinkedin(blog) THEN blog ELSE EmptyStr,
             blog |-> blog]

Record(project, username, website, linkedin, blog) ==
    [project_name |-> project.name,
     project_url |-> <<project.owner, project.repo>>,
     contributor_username |-> username,
     website |-> website,
     linkedin |-> linkedin,
     blog |-> blog,
     blockchain_name |-> Missing,
     repo_stars |-> 0 - 1]

\* The record built in SimpleGitHubExtractor.extract_contributors_data
SimpleRecord(project, username, user_info) ==
    Record(project, username, DictGet(user_info.blog, EmptyStr), BlogMissing, BlogMissing)

\* The record built in GitHubContributorExtractor.process_repository
GitHubRecord(project, username, user_details) ==
    LET social_links == extract_social_links(user_details)
    IN Record(project, username, social_links.website, social_links.linkedin,
              social_links.blog)

\* "Add only new contributors": the loop over repo_contributors
\* AddNew without the test "username not in seen_usernames".
AddNew_NoSeenCheck(repo_contributors, seen, new_contributors) ==
    [seen |-> seen \cup {repo_contributors[n].contributor_username :
                            n \in 1..Len(repo_contributors)},
     new_contributors |-> new_contributors \o repo_contributors]

\* AddNew putting each new contributor in front of the ones before it.
RECURSIVE AddNew_Prepend(_, _, _)
AddNew_Prepend(repo_contributors, seen, new_contributors) ==
    IF repo_contributors = <<>>
    THEN [seen |-> seen, new_contributors |-> new_contributors]
    ELSE LET contributor == Head(repo_contributors)
             username == contributor.contributor_username
         IN IF username \notin seen
            THEN AddNew_Prepend(Tail(repo_contributors), seen \cup {username},
                                <<contributor>> \o new_contributors)
            ELSE AddNew_Prepend(Tail(repo_contributors), seen, new_contributors)

\* AddNew without "seen_usernames.add(username)".
AddNew_NoSeenAdd(repo_contributors, seen, new_contributors) ==
    [seen |-> seen,
     new_contributors |->
        new_contributors \o
        SelectSeq(repo_contributors,
                  LAMBDA contributor : contributor.contributor_username \notin seen)]

RECURSIVE AddNew(_, _, _)
AddNew(repo_contributors, seen, new_contributors) ==
    IF repo_contributors = <<>>
    THEN [seen |-> seen, new_contributors |-> new_contributors]
    ELSE LET contributor == Head(repo_contributors)
             username == contributor.contributor_username
         IN IF username \notin seen
            THEN AddNew(Tail(repo_contributors), seen \cup {username},
                        Append(new_contributors, contributor))
            ELSE AddNew(Tail(repo_contributors), seen, new_contributors)

\* "Remove duplicates based on contributor username and project"
RECURSIVE RemoveDuplicates(_, _, _)
RemoveDuplicates(contributors, seen, unique) ==
    IF contributors = <<>>
    THEN unique
    ELSE LET contributor == Head(contributors)
             key == <<contributor.contributor_username, contributor.project_name>>
         IN IF key \notin seen
            THEN RemoveDuplicates(Tail(contributors), seen \cup {key},
                                  Append(unique, contributor))
            ELSE RemoveDuplicates(Tail(contributors), seen, unique)

\* "Add blockchain metadata to each contributor"
Stamp(repo_contributors, blockchain_info, repo) ==
    [n \in 1..Len(repo_contributors) |->
        [repo_contributors[n] EXCEPT !.blockchain_name = blockchain_info.name,
                                     !.repo_stars = repo.stars]]

\* Extend keeping only the records of the last repository.
Extend_Replace(list, items) == items

\* "all_contributors.extend(...)"
Extend(list, items) == list \o items

\* The list a finished run hands to the sink, and the dedup key of its mode.
FinalResult == IF mode = "extract_all" THEN unique_contributors ELSE all_contributors
DedupKey(r) == IF mode = "extract_all"
               THEN <<r.contributor_username, r.project_name>>
               ELSE <<r.contributor_username>>

----------------------------------------------------------------------------
\* The aggregation pipelines:
\*   run_extraction, two_stage (run_blockchain_extraction_with_top_repos),
\*   extract_all (extract_all_contributors).

E1 == [owner |-> "o1", repo |-> "r1", name |-> "P1", stars |-> 0 - 1]
E2 == [owner |-> "o1", repo |-> "r2", name |-> "P1", stars |-> 0 - 1]
E3 == [owner |-> "o2", repo |-> "r1", name |-> "P2", stars |-> 0 - 1]
Catalogs == {<<E1, E2>>, <<E1, E3>>}
\* extract_all dedups on (login, project): two entries may share a display
\* name (as the two '0x Protocol' entries do) or not.
CatalogsOf(m) == IF m = "extract_all" THEN Catalogs ELSE {<<E1, E3>>}

PipeModes == {"run_extraction", "two_stage", "extract_all"}

\* save_to_csv(data, file): nothing is opened for an empty list; otherwise the
\* write succeeds or raises.
SinkOutcomes(data) ==
    IF data = <<>> THEN {"empty"}
    ELSE {"written"} \cup (IF anomalies > 0 THEN {"failed"} ELSE {})
Saved(data, outcome) == [n |-> i, data |-> data, outcome |-> outcome]

EntryRecord(state, stubs, recs) == [state |-> state, stubs |-> stubs, produced |-> recs]

\* The caller has consumed the result of make_request and pauses for dt.
Consumed(dt) ==
    /\ rpc' = "idle"
    /\ now' = now + dt
    /\ UNCHANGED <<url, attempt, result, log, last_request_time,
                   rate_limit_remaining, rate_limit_reset, profile_404, quota_gets>>

\* The pauses the pipelines make, in tenths of a second.
ProfilePause == IF Extractor = "Simple" THEN 1 * Second ELSE 1
EntryPause == IF i < Len(catalog)
              THEN (IF mode = "run_extraction" THEN 2 * Second
                    ELSE IF mode = "two_stage" THEN 3 * Second ELSE 0)
              ELSE 0

\* EntryFailed without the except clause: the exception leaves the pipeline.
EntryFailed_Abort(all, seen, succ, sv, stubs, recs, warn, spent) ==
    /\ pc' = "crashed"
    /\ i' = i
    /\ all_contributors' = all
    /\ seen_usernames' = seen
    /\ successful' = succ
    /\ failed' = failed
    /\ saves' = sv
    /\ entries' = entries
    /\ stub_log' = <<>>
    /\ produced' = <<>>
    /\ not_found_warnings' = warn
    /\ rpc' = "idle"
    /\ anomalies' = anomalies - spent
    /\ UNCHANGED <<url, attempt, result, log, now, last_request_time,
                   rate_limit_remaining, rate_limit_reset, profile_404, quota_gets>>
    /\ UNCHANGED <<j, k, top_repos, repo_info, contributors_data, results>>

\* "except Exception as e: ... continue" of the three pipeline loops; what
\* the entry had merged before stays merged.  spent: 1 when a failing write
\* of the sink caused it.
EntryFailed(all, seen, succ, sv, stubs, recs, warn, spent) ==
    /\ pc' = "loop"
    /\ i' = i + 1
    /\ all_contributors' = all
    /\ seen_usernames' = seen
    /\ successful' = succ
    /\ failed' = IF mode = "run_extraction" THEN failed ELSE failed + 1
    /\ saves' = sv
    /\ entries' = Append(entries, EntryRecord("Failed", stubs, recs))
    /\ stub_log' = <<>>
    /\ produced' = <<>>
    /\ not_found_warnings' = warn
    /\ rpc' = "idle"
    /\ anomalies' = anomalies - spent
    /\ UNCHANGED <<url, attempt, result, log, now, last_request_time,
                   rate_limit_remaining, rate_limit_reset, profile_404, quota_gets>>
    /\ UNCHANGED <<j, k, top_repos, repo_info, contributors_data, results>>

\* The entry ends normally: save, pause, next entry.
EntryDone(all, seen, succ, recs, checkpoint) ==
    \E outcome \in (IF checkpoint THEN SinkOutcomes(all) ELSE {"none"}) :
       LET sv == IF outcome = "none" THEN saves ELSE Append(saves, Saved(all, outcome))
       IN IF outcome = "failed"
          THEN EntryFailed(all, seen, succ, sv, stub_log, recs, not_found_warnings, 1)
          ELSE /\ pc' = "loop"
               /\ i' = i + 1
               /\ all_contributors' = all
               /\ seen_usernames' = seen
               /\ successful' = succ
               /\ failed' = failed
               /\ saves' = sv
               /\ entries' = Append(entries, EntryRecord("Done", stub_log, recs))
               /\ stub_log' = <<>>
               /\ produced' = <<>>
               /\ Consumed(EntryPause)
               /\ UNCHANGED <<anomalies, not_found_warnings>>
               /\ UNCHANGED <<j, k, top_repos, repo_info, contributors_data, results>>

\* extract_contributors_data / process_repository has returned results to the
\* pipeline loop; the rest of the loop body.
MergeRepo ==
    /\ mode \in PipeModes
    /\ pc = "merge"
    /\ CASE mode = "run_extraction" ->
              LET d == AddNew(results, seen_usernames, <<>>)
              IN EntryDone(Extend(all_contributors, d.new_contributors), d.seen, successful,
                           produced \o results, TRUE)
         [] mode = "extract_all" ->
              EntryDone(Extend(all_contributors, results), seen_usernames, successful + 1,
                        produced \o results, (successful + 1) % CheckpointEvery = 0)
         [] mode = "two_stage" ->
              LET stamped == Stamp(results, catalog[i], repo_info)
                  d == AddNew(stamped, seen_usernames, <<>>)
                  all == Extend(all_contributors, d.new_contributors)
              IN IF j < Len(top_repos)
                 THEN /\ pc' = "contributors"
                      /\ j' = j + 1
                      /\ repo_info' = top_repos[j + 1]
                      /\ all_contributors' = all
                      /\ seen_usernames' = d.seen
                      /\ produced' = produced \o stamped
                      /\ Call(Url("contributors", top_repos[j + 1].owner,
                                  top_repos[j + 1].repo), 0)
                      /\ UNCHANGED <<i, k, top_repos, contributors_data, results,
                                     successful, failed, saves, entries, stub_log,
                                     not_found_warnings>>
                 ELSE EntryDone(all, d.seen, successful + 1, produced \o stamped, TRUE)
    /\ UNCHANGED <<mode, calls, catalog, unique_contributors, fetchvars>>

\* Top of the loop over self.blockchain_repos: the first request of the entry.
StartEntry ==
    /\ mode \in PipeModes
    /\ pc = "loop"
    /\ i <= Len(catalog)
    /\ IF mode = "two_stage"
       THEN /\ pc' = "repos"
            /\ Call(Url("repos", catalog[i].owner, ""), 0)
            /\ UNCHANGED repo_info
       ELSE /\ pc' = "contributors"
            /\ repo_info' = catalog[i]
            /\ Call(Url("contributors", catalog[i].owner, catalog[i].repo), 0)
    /\ UNCHANGED <<i, j, k, top_repos, contributors_data, results, all_contributors,
                   seen_usernames, successful, failed, saves, entries, stub_log,
                   not_found_warnings, produced>>
    /\ UNCHANGED <<mode, calls, catalog, unique_contributors, fetchvars>>

\* GotRepos counting an organization without repositories as processed.
GotRepos_SkipAsSuccess ==
    /\ mode = "two_stage"
    /\ pc = "repos"
    /\ rpc = "ret"
    /\ LET top == get_top_repositories_for_blockchain(result, catalog[i].owner, TopRepoLimit)
       IN IF top = <<>>
          THEN /\ pc' = "loop"
               /\ i' = i + 1
               /\ successful' = successful + 1
               /\ entries' = Append(entries, EntryRecord("Skipped", <<>>, <<>>))
               /\ Consumed(0)
               /\ UNCHANGED anomalies
               /\ UNCHANGED <<j, top_repos, repo_info, failed>>
          ELSE /\ pc' = "contributors"
               /\ top_repos' = top
               /\ j' = 1
               /\ repo_info' = top[1]
               /\ Call(Url("contributors", top[1].owner, top[1].repo), 0)
               /\ UNCHANGED <<i, failed, entries, successful>>
    /\ UNCHANGED <<k, contributors_data, results, all_contributors, seen_usernames,
                   saves, stub_log, not_found_warnings, produced>>
    /\ UNCHANGED <<mode, calls, catalog, unique_contributors, fetchvars>>

\* run_blockchain_extraction_with_top_repos: the repository list has come back.
GotRepos ==
    /\ mode = "two_stage"
    /\ pc = "repos"
    /\ rpc = "ret"
    /\ LET top == get_top_repositories_for_blockchain(result, catalog[i].owner, TopRepoLimit)
       IN IF top = <<>>
          THEN \* "failed_orgs += 1; continue"
               /\ pc' = "loop"
               /\ i' = i + 1
               /\ failed' = failed + 1
               /\ entries' = Append(entries, EntryRecord("Skipped", <<>>, <<>>))
               /\ Consumed(0)
               /\ UNCHANGED anomalies
               /\ UNCHANGED <<j, top_repos, repo_info>>
          ELSE /\ pc' = "contributors"
               /\ top_repos' = top
               /\ j' = 1
               /\ repo_info' = top[1]
               /\ Call(Url("contributors", top[1].owner, top[1].repo), 0)
               /\ UNCHANGED <<i, failed, entries>>
    /\ UNCHANGED <<k, contributors_data, results, all_contributors, seen_usernames,
                   successful, saves, stub_log, not_found_warnings, produced>>
    /\ UNCHANGED <<mode, calls, catalog, unique_contributors, fetchvars>>

\* extract_contributors_data / process_repository: the contributor list has
\* come back.
GotContributors ==
    /\ mode \in PipeModes
    /\ pc = "contributors"
    /\ rpc = "ret"
    /\ LET fetched == IF Extractor = "Simple"
                      THEN get_top_contributors(result, DefaultContributors)
                      ELSE get_repo_contributors(result)
       IN IF fetched.raised
          THEN EntryFailed(all_contributors, seen_usernames, successful, saves,
                           stub_log, produced, not_found_warnings, 0)
          ELSE IF fetched.list = <<>>
               THEN \* "if not contributors_data: return []"
                    /\ pc' = "merge"
                    /\ contributors_data' = <<>>
                    /\ results' = <<>>
                    /\ k' = 0
                    /\ Consumed(0)
                    /\ UNCHANGED <<i, j, top_repos, repo_info, all_contributors,
                                   seen_usernames, successful, failed, saves, entries,
                                   stub_log, not_found_warnings, produced, anomalies>>
               ELSE /\ pc' = "profile"
                    /\ contributors_data' = fetched.list
                    /\ results' = <<>>
                    /\ k' = 1
                    /\ Call(Url("user", fetched.list[1].login, ""), 0)
                    /\ UNCHANGED <<i, j, top_repos, repo_info, all_contributors,
                                   seen_usernames, successful, failed, saves, entries,
                                   stub_log, not_found_warnings, produced>>
    /\ UNCHANGED <<mode, calls, catalog, unique_contributors, fetchvars>>

\* extract_contributors_data / process_repository: one profile has come back.
GotProfile ==
    /\ mode \in PipeModes
    /\ pc = "profile"
    /\ rpc = "ret"
    /\ LET username == contributors_data[k].login
           found == Truthy(result)
           user_info == result.body[1]
           raises == found /\ Extractor = "GitHub" /\ extract_social_links(user_info).raised
           rec == IF Extractor = "Simple"
                  THEN SimpleRecord(repo_info, username, user_info)
                  ELSE GitHubRecord(repo_info, username, user_info)
           res == IF found THEN Append(results, rec) ELSE results
           warn == IF found THEN not_found_warnings ELSE not_found_warnings + 1
           stubs == Append(stub_log, [login |-> username, ok |-> found])
           dt == IF found THEN ProfilePause ELSE 0
       IN IF raises
          THEN EntryFailed(all_contributors, seen_usernames, successful, saves,
                           stubs, produced, warn, 0)
          ELSE IF k < Len(contributors_data)
               THEN /\ k' = k + 1
                    /\ results' = res
                    /\ stub_log' = stubs
                    /\ not_found_warnings' = warn
                    /\ Call(Url("user", contributors_data[k + 1].login, ""), dt)
                    /\ UNCHANGED <<pc, i, j, top_repos, repo_info, contributors_data,
                                   all_contributors, seen_usernames, successful, failed,
                                   saves, entries, produced>>
               ELSE /\ pc' = "merge"
                    /\ results' = res
                    /\ stub_log' = stubs
                    /\ not_found_warnings' = warn
                    /\ Consumed(dt)
                    /\ UNCHANGED <<i, j, k, top_repos, repo_info, contributors_data,
                                   all_contributors, seen_usernames, successful, failed,
                                   saves, entries, produced, anomalies>>
    /\ UNCHANGED <<mode, calls, catalog, unique_contributors, fetchvars>>

\* After the loop: extract_all_contributors removes duplicates and writes the
\* final file (outside any try); the single-key modes only log statistics.
Finish ==
    /\ mode \in PipeModes
    /\ pc = "loop"
    /\ i > Len(catalog)
    /\ IF mode = "extract_all"
       THEN LET unique == RemoveDuplicates(all_contributors, {}, <<>>)
            IN \E outcome \in SinkOutcomes(unique) :
                 /\ unique_contributors' = unique
                 /\ saves' = Append(saves, Saved(unique, outcome))
                 /\ pc' = IF outcome = "failed" THEN "crashed" ELSE "done"
                 /\ anomalies' = IF outcome = "failed" THEN anomalies - 1 ELSE anomalies
       ELSE /\ pc' = "done"
            /\ UNCHANGED <<unique_contributors, saves, anomalies>>
    /\ UNCHANGED <<rpc, url, attempt, result, log, now, last_request_time,
                   rate_limit_remaining, rate_limit_reset, profile_404, quota_gets>>
    /\ UNCHANGED <<i, j, k, top_repos, repo_info, contributors_data, results,
                   all_contributors, seen_usernames, successful, failed, entries,
                   stub_log, not_found_warnings, produced>>
    /\ UNCHANGED <<mode, calls, catalog, fetchvars>>

----------------------------------------------------------------------------
\* Direct calls of make_request, as test_basic.py makes them.
DriverUrls == {Url("contributors", "o1", "r1"), Url("user", "alice", ""),
               Url("repos", "o1", "")}

DriverCall ==
    /\ mode \in {"driver_simple", "driver_github", "silent_simple", "silent_github"}
    /\ rpc \in {"idle", "ret"}
    /\ calls < MaxCalls
    /\ calls' = calls + 1
    /\ \E u \in DriverUrls : Call(u, 0)
    /\ UNCHANGED <<mode, pipevars, fetchvars>>

NoCatalog == <<>>
NoRepo == [owner |-> "", repo |-> "", name |-> "", stars |-> 0 - 1]
PipeIdle(p) ==
    /\ pc = p /\ i = 0 /\ j = 0 /\ k = 0
    /\ catalog = NoCatalog /\ top_repos = <<>> /\ repo_info = NoRepo
    /\ contributors_data = <<>> /\ results = <<>>
    /\ all_contributors = <<>> /\ seen_usernames = {} /\ unique_contributors = <<>>
    /\ successful = 0 /\ failed = 0 /\ saves = <<>>
    /\ entries = <<>> /\ stub_log = <<>>
    /\ not_found_warnings = 0 /\ produced = <<>>
NoLinks == [raised |-> FALSE, linkedin |-> EmptyStr, website |-> EmptyStr, blog |-> EmptyStr]
FilterIdle == /\ all_repos = <<>> /\ fpos = 0 /\ filtered_repos = <<>>
              /\ owner_counts = <<>> /\ final_repos = <<>>
RerunIdle == run = 0 /\ service = <<>> /\ first_keys = {}
UnitIdle == link_in = Profile("", EmptyStr) /\ link_out = NoLinks /\ FilterIdle /\ RerunIdle
FetchIdle == fetch_in = None /\ fetch_limit = 0 /\ fetch_out = Returned(<<>>) /\ UnitIdle
ReqIdle(budget) ==
    /\ rpc = "idle" /\ url = Url("", "", "") /\ attempt = 0 /\ result = None
    /\ log = <<>> /\ now = StartTime /\ last_request_time = 0
    /\ rate_limit_remaining = QuotaInitial /\ rate_limit_reset = 0
    /\ anomalies = budget /\ profile_404 = 0 /\ quota_gets = 0

Init ==
    /\ mode \in PipeModes
    /\ calls = 0
    /\ ReqIdle(MaxAnomalies)
    /\ catalog \in CatalogsOf(mode)
    /\ pc = "loop" /\ i = 1 /\ j = 0 /\ k = 0
    /\ top_repos = <<>> /\ repo_info = NoRepo
    /\ contributors_data = <<>> /\ results = <<>>
    /\ all_contributors = <<>> /\ seen_usernames = {} /\ unique_contributors = <<>>
    /\ successful = 0 /\ failed = 0 /\ saves = <<>>
    /\ entries = <<>> /\ stub_log = <<>>
    /\ not_found_warnings = 0 /\ produced = <<>>
    /\ FetchIdle

Next ==
    \/ StartEntry
    \/ GotRepos
    \/ GotContributors
    \/ GotProfile
    \/ MergeRepo
    \/ Finish
    \/ respect_rate_limit
    \/ check_rate_limit
    \/ Simple_make_request
    \/ GitHub_make_request

Spec == Init /\ [][Next]_vars

\* The extractors are sequential programs: whenever a step is possible the
\* program takes one (every sleep is finite).
SpecLive == Init /\ [][Next]_vars /\ WF_vars(Next)

----------------------------------------------------------------------------
\* The Contributor Fetcher alone, on every short answer of the service.
FetchLogins == <<"u1", "u2", "u3", "u4", "u5", "u6", "u7", "u8", "u9", "u10", "u11",
                 "u12", "u13", "u14">>
FetchList(types) == [n \in 1..Len(types) |-> [login |-> FetchLogins[n], type |-> types[n]]]
FetchPayloads == {List(FetchList(t)) : t \in SeqsUpTo({"User", "Bot"}, MaxFetchLen)}
                 \cup {None, ErrorObject, List(<<>>), List(<<UserStub("alice"), BadStub>>)}

InitFetch ==
    /\ mode \in {"fetch_simple", "fetch_github"}
    /\ calls = 0
    /\ ReqIdle(0)
    /\ PipeIdle("fetch")
    /\ fetch_in \in FetchPayloads
    /\ fetch_limit \in (IF mode = "fetch_simple"
                         THEN {DefaultContributors, DataContributors}
                         ELSE {RepoContributors})
    /\ fetch_out = Returned(<<>>)
    /\ UnitIdle

ApplyFetcher ==
    /\ pc = "fetch"
    /\ pc' = "fetched"
    /\ fetch_out' = IF Extractor = "Simple"
                    THEN get_top_contributors(fetch_in, fetch_limit)
                    ELSE get_repo_contributors(fetch_in)
    /\ UNCHANGED <<mode, calls, reqvars, fetch_in, fetch_limit, unitvars, rerunvars>>
    /\ UNCHANGED <<i, j, k, catalog, top_repos, repo_info, contributors_data, results,
                   all_contributors, seen_usernames, unique_contributors, successful,
                   failed, saves, entries, stub_log, not_found_warnings, produced>>

NextFetch == ApplyFetcher

SpecFetch == InitFetch /\ [][NextFetch]_vars

----------------------------------------------------------------------------
\* The Org-Repository Fetcher alone, on every short answer of the service:
\* the repositories come in whatever order the service gives them.
RepoPayloads == {List(r) : r \in SeqsUpTo({RepoData("r1"), RepoData("r2")}, MaxRepoLen)}
                \cup {None, ErrorObject}

InitRepos ==
    /\ mode = "fetch_repos"
    /\ calls = 0
    /\ ReqIdle(0)
    /\ pc = "top" /\ i = 0 /\ j = 0 /\ k = 0
    /\ catalog = NoCatalog /\ top_repos = <<>>
    /\ repo_info \in {E1, E3}
    /\ contributors_data = <<>> /\ results = <<>>
    /\ all_contributors = <<>> /\ seen_usernames = {} /\ unique_contributors = <<>>
    /\ successful = 0 /\ failed = 0 /\ saves = <<>>
    /\ entries = <<>> /\ stub_log = <<>>
    /\ not_found_warnings = 0 /\ produced = <<>>
    /\ fetch_in \in RepoPayloads
    /\ fetch_limit \in 1..TopRepoLimit
    /\ fetch_out = Returned(<<>>)
    /\ UnitIdle

ApplyRepoFetcher ==
    /\ pc = "top"
    /\ pc' = "topped"
    /\ top_repos' = get_top_repositories_for_blockchain(fetch_in, repo_info.owner,
                                                        fetch_limit)
    /\ UNCHANGED <<mode, calls, reqvars, fetchvars>>
    /\ UNCHANGED <<i, j, k, catalog, repo_info, contributors_data, results,
                   all_contributors, seen_usernames, unique_contributors, successful,
                   failed, saves, entries, stub_log, not_found_warnings, produced>>

NextRepos == ApplyRepoFetcher

SpecRepos == InitRepos /\ [][NextRepos]_vars

----------------------------------------------------------------------------
\* extract_social_links alone, on every short link field.  A string is the
\* sequence of its pieces; 'linkedin.com' may come in one piece or in two.
BlogChunks == {"https://", "linkedin.com", "linkedin", ".com", "example.org"}
Blogs == SeqsUpTo(BlogChunks, MaxBlogLen) \cup {BlogMissing, BlogNull}

InitLinks ==
    /\ mode = "links"
    /\ calls = 0
    /\ ReqIdle(0)
    /\ PipeIdle("links")
    /\ fetch_in = None /\ fetch_limit = 0 /\ fetch_out = Returned(<<>>)
    /\ link_in \in {Profile("alice", b) : b \in Blogs}
    /\ link_out = NoLinks
    /\ FilterIdle
    /\ RerunIdle

ApplyLinks ==
    /\ pc = "links"
    /\ pc' = "linked"
    /\ link_out' = extract_social_links(link_in)
    /\ UNCHANGED <<mode, calls, reqvars, fetch_in, fetch_limit, fetch_out, link_in,
                   filtervars, rerunvars>>
    /\ UNCHANGED <<i, j, k, catalog, top_repos, repo_info, contributors_data, results,
                   all_contributors, seen_usernames, unique_contributors, successful,
                   failed, saves, entries, stub_log, not_found_warnings, produced>>

NextLinks == ApplyLinks

SpecLinks == InitLinks /\ [][NextLinks]_vars

----------------------------------------------------------------------------
\* filter_repos.py.  An owner name is the sequence of its pieces, so that
\* "non_evm in owner.lower()" is a test on pieces.
non_evm_chains == {"bitcoin", "solana", "cardano", "polkadot", "near", "cosmos",
                   "algorand", "ripple", "stellar", "tezos", "filecoin",
                   "chainalysis", "hyperledger"}
Lower(c) == CASE c = "NEAR" -> "near"
              [] c = "Solana" -> "solana"
              [] OTHER -> c
\* The chain test comparing the owner as written, without lower().
IsNonEvm_CaseSensitive(owner) == \E n \in 1..Len(owner) : owner[n] \in non_evm_chains
IsNonEvm(owner) == \E n \in 1..Len(owner) : Lower(owner[n]) \in non_evm_chains

FilterOwners == {<<"ethereum">>, <<"uniswap">>, <<"Solana", "-labs">>}
\* sorted(filtered_repos.keys())
SortedOwners == << <<"Solana", "-labs">>, <<"ethereum">>, <<"uniswap">> >>
FilterEntries ==
    {[owner |-> <<"ethereum">>, repo |-> r] : r \in {"r1", "r2", "r3", "r4"}}
    \cup {[owner |-> <<"uniswap">>, repo |-> "r1"],
          [owner |-> <<"Solana", "-labs">>, repo |-> "r1"]}

\* d[key] = value
Put(d, key, value) == [x \in DOMAIN d \cup {key} |-> IF x = key THEN value ELSE d[x]]

\* Keep counting a repeated (owner, repo) pair against the owner's limit.
Keep_CountRepeated(filtered, counts, repo) ==
    LET owner == repo.owner
        c == IF owner \in DOMAIN counts THEN counts ELSE Put(counts, owner, 0)
        f == IF owner \in DOMAIN counts THEN filtered ELSE Put(filtered, owner, <<>>)
    IN IF c[owner] < PerOwnerLimit
       THEN IF ~\E n \in 1..Len(f[owner]) : f[owner][n].repo = repo.repo
            THEN [filtered |-> Put(f, owner, Append(f[owner], repo)),
                  counts |-> Put(c, owner, c[owner] + 1)]
            ELSE [filtered |-> f, counts |-> Put(c, owner, c[owner] + 1)]
       ELSE [filtered |-> f, counts |-> c]

\* The body of the filter loop for an entry that passed the chain test
Keep(filtered, counts, repo) ==
    LET owner == repo.owner
        c == IF owner \in DOMAIN counts THEN counts ELSE Put(counts, owner, 0)
        f == IF owner \in DOMAIN counts THEN filtered ELSE Put(filtered, owner, <<>>)
    IN IF c[owner] < PerOwnerLimit
          /\ ~\E n \in 1..Len(f[owner]) : f[owner][n].repo = repo.repo
       THEN [filtered |-> Put(f, owner, Append(f[owner], repo)),
             counts |-> Put(c, owner, c[owner] + 1)]
       ELSE [filtered |-> f, counts |-> c]

\* "for owner in sorted(filtered_repos.keys()): for repo in filtered_repos[owner]"
RECURSIVE Generate(_, _)
Generate(owners, filtered) ==
    IF owners = <<>> THEN <<>>
    ELSE (IF Head(owners) \in DOMAIN filtered THEN filtered[Head(owners)] ELSE <<>>)
         \o Generate(Tail(owners), filtered)

InitFilter ==
    /\ mode = "filter_repos"
    /\ calls = 0
    /\ ReqIdle(0)
    /\ PipeIdle("filter")
    /\ fetch_in = None /\ fetch_limit = 0 /\ fetch_out = Returned(<<>>)
    /\ link_in = Profile("", EmptyStr) /\ link_out = NoLinks
    /\ all_repos \in SeqsUpTo(FilterEntries, MaxCatalog)
    /\ fpos = 1
    /\ filtered_repos = <<>> /\ owner_counts = <<>> /\ final_repos = <<>>
    /\ RerunIdle

FilterRest ==
    /\ UNCHANGED <<mode, calls, reqvars, fetch_in, fetch_limit, fetch_out, link_in,
                   link_out, all_repos, rerunvars>>
    /\ UNCHANGED <<i, j, k, catalog, top_repos, repo_info, contributors_data, results,
                   all_contributors, seen_usernames, unique_contributors, successful,
                   failed, saves, entries, stub_log, not_found_warnings, produced>>

\* One round of "for repo in all_repos"
FilterRepo ==
    /\ pc = "filter"
    /\ fpos <= Len(all_repos)
    /\ LET repo == all_repos[fpos]
           kept == Keep(filtered_repos, owner_counts, repo)
       IN IF IsNonEvm(repo.owner)
          THEN UNCHANGED <<filtered_repos, owner_counts>>
          ELSE /\ filtered_repos' = kept.filtered
               /\ owner_counts' = kept.counts
    /\ fpos' = fpos + 1
    /\ UNCHANGED <<pc, final_repos>>
    /\ FilterRest

\* "Generate the filtered repository list"
GenerateList ==
    /\ pc = "filter"
    /\ fpos > Len(all_repos)
    /\ final_repos' = Generate(SortedOwners, filtered_repos)
    /\ pc' = "filtered"
    /\ UNCHANGED <<fpos, filtered_repos, owner_counts>>
    /\ FilterRest

NextFilter == FilterRepo \/ GenerateList

SpecFilter == InitFilter /\ [][NextFilter]_vars

----------------------------------------------------------------------------
\* The same pipeline mode run twice against a deterministic mocked service:
\* every URL has one answer, the same at every GET.
MockUrls(cat) ==
    {Url("contributors", cat[n].owner, cat[n].repo) : n \in 1..Len(cat)}
    \cup {Url("user", l, "") : l \in Logins}
TwoStageUrls(cat) ==
    {Url("repos", cat[n].owner, "") : n \in 1..Len(cat)}
    \cup {Url("user", l, "") : l \in Logins}
    \cup {Url("contributors", cat[n].owner, "r1") : n \in 1..Len(cat)}
MockAnswers(u) ==
    CASE u.kind = "contributors" ->
           {Outcome("200", p, "absent", FALSE) : p \in NominalPayloads(u) \cup {ErrorObject}}
           \cup {Outcome("404", None, "absent", FALSE)}
      [] u.kind = "user" ->
           {Outcome("200", p, "absent", FALSE) :
               p \in NominalPayloads(u) \cup {Dict(Profile(u.a, BlogNull))}}
           \cup {Outcome(c, None, "absent", FALSE) : c \in {"404", "500"}}
      [] u.kind = "repos" ->
           {Outcome("200", List(<<RepoData("r1")>>), "absent", FALSE),
            Outcome("404", None, "absent", FALSE)}
RECURSIVE Mocks(_)
Mocks(urls) ==
    IF urls = {} THEN {<<>>}
    ELSE LET u == CHOOSE x \in urls : TRUE
         IN {[x \in urls |-> IF x = u THEN a ELSE f[x]] :
                f \in Mocks(urls \ {u}), a \in MockAnswers(u)}

InitRerun ==
    /\ mode \in PipeModes
    /\ calls = 0
    /\ ReqIdle(0)
    /\ catalog \in CatalogsOf(mode)
    /\ pc = "loop" /\ i = 1 /\ j = 0 /\ k = 0
    /\ top_repos = <<>> /\ repo_info = NoRepo
    /\ contributors_data = <<>> /\ results = <<>>
    /\ all_contributors = <<>> /\ seen_usernames = {} /\ unique_contributors = <<>>
    /\ successful = 0 /\ failed = 0 /\ saves = <<>>
    /\ entries = <<>> /\ stub_log = <<>>
    /\ not_found_warnings = 0 /\ produced = <<>>
    /\ fetch_in = None /\ fetch_limit = 0 /\ fetch_out = Returned(<<>>)
    /\ link_in = Profile("", EmptyStr) /\ link_out = NoLinks /\ FilterIdle
    /\ run = 1
    /\ service \in Mocks(IF mode = "two_stage" THEN TwoStageUrls(catalog)
                          ELSE MockUrls(catalog))
    /\ first_keys = {}

\* Restart with seen_usernames kept from the first run.
Restart_KeepSeen ==
    /\ run = 1
    /\ pc = "done"
    /\ run' = 2
    /\ first_keys' = {DedupKey(FinalResult[n]) : n \in 1..Len(FinalResult)}
    /\ pc' = "loop" /\ i' = 1 /\ j' = 0 /\ k' = 0
    /\ top_repos' = <<>> /\ repo_info' = NoRepo
    /\ contributors_data' = <<>> /\ results' = <<>>
    /\ all_contributors' = <<>> /\ seen_usernames' = seen_usernames
    /\ unique_contributors' = <<>>
    /\ successful' = 0 /\ failed' = 0 /\ saves' = <<>>
    /\ entries' = <<>> /\ stub_log' = <<>>
    /\ not_found_warnings' = 0 /\ produced' = <<>>
    /\ UNCHANGED <<mode, calls, catalog, reqvars, service>>
    /\ UNCHANGED <<fetch_in, fetch_limit, fetch_out, unitvars>>

\* The first run is over; the same entry point is called again on the same
\* extractor: its locals start afresh, the request state of the object stays.
Restart ==
    /\ run = 1
    /\ pc = "done"
    /\ run' = 2
    /\ first_keys' = {DedupKey(FinalResult[n]) : n \in 1..Len(FinalResult)}
    /\ pc' = "loop" /\ i' = 1 /\ j' = 0 /\ k' = 0
    /\ top_repos' = <<>> /\ repo_info' = NoRepo
    /\ contributors_data' = <<>> /\ results' = <<>>
    /\ all_contributors' = <<>> /\ seen_usernames' = {} /\ unique_contributors' = <<>>
    /\ successful' = 0 /\ failed' = 0 /\ saves' = <<>>
    /\ entries' = <<>> /\ stub_log' = <<>>
    /\ not_found_warnings' = 0 /\ produced' = <<>>
    /\ UNCHANGED <<mode, calls, catalog, reqvars, service>>
    /\ UNCHANGED <<fetch_in, fetch_limit, fetch_out, unitvars>>

NextRerun ==
    \/ StartEntry
    \/ GotRepos
    \/ GotContributors
    \/ GotProfile
    \/ MergeRepo
    \/ Finish
    \/ respect_rate_limit
    \/ check_rate_limit
    \/ Simple_make_request
    \/ GitHub_make_request
    \/ Restart

SpecRerun == InitRerun /\ [][NextRerun]_vars

----------------------------------------------------------------------------
\* extract_all_contributors on a catalog long enough for the intermediate
\* save ("successful_repos % 5 == 0") to happen, the service answering
\* normally.  As in the built-in catalog, two entries share a display name.
E4 == [owner |-> "o2", repo |-> "r2", name |-> "P3", stars |-> 0 - 1]
E5 == [owner |-> "o3", repo |-> "r1", name |-> "P4", stars |-> 0 - 1]
LongCatalog == <<E1, E2, E3, E4, E5>>

InitLong ==
    /\ mode = "extract_all"
    /\ calls = 0
    /\ ReqIdle(0)
    /\ catalog = LongCatalog
    /\ pc = "loop" /\ i = 1 /\ j = 0 /\ k = 0
    /\ top_repos = <<>> /\ repo_info = NoRepo
    /\ contributors_data = <<>> /\ results = <<>>
    /\ all_contributors = <<>> /\ seen_usernames = {} /\ unique_contributors = <<>>
    /\ successful = 0 /\ failed = 0 /\ saves = <<>>
    /\ entries = <<>> /\ stub_log = <<>>
    /\ not_found_warnings = 0 /\ produced = <<>>
    /\ FetchIdle

NextLong ==
    \/ StartEntry
    \/ GotContributors
    \/ GotProfile
    \/ MergeRepo
    \/ Finish
    \/ check_rate_limit
    \/ GitHub_make_request

SpecLong == InitLong /\ [][NextLong]_vars

----------------------------------------------------------------------------
InitReq ==
    /\ mode \in {"driver_simple", "driver_github"}
    /\ calls = 0
    /\ ReqIdle(ReqAnomalies)
    /\ PipeIdle("none")
    /\ FetchIdle

NextReq ==
    \/ DriverCall
    \/ respect_rate_limit
    \/ check_rate_limit
    \/ Simple_make_request
    \/ GitHub_make_request

SpecReq == InitReq /\ [][NextReq]_vars

\* make_request is sequential code: a call that has started goes on.
SpecReqLive == InitReq /\ [][NextReq]_vars /\ WF_vars(NextReq)

\* The same direct calls against a service that may leave a GET unanswered.
InitSilent ==
    /\ mode \in {"silent_simple", "silent_github"}
    /\ calls = 0
    /\ ReqIdle(ReqAnomalies)
    /\ PipeIdle("none")
    /\ FetchIdle

SpecSilent == InitSilent /\ [][NextReq]_vars

----------------------------------------------------------------------------
\* Helpers of the properties.
IsGet(e) == e[1] = "get"
IsResp(e) == e[1] = "resp"
GetCount(l) == Len(SelectSeq(l, IsGet))
Usernames(recs) == [n \in 1..Len(recs) |-> recs[n].contributor_username]
IsOk(st) == st.ok
OkLogins(stubs) == LET oks == SelectSeq(stubs, IsOk)
                   IN [n \in 1..Len(oks) |-> oks[n].login]
RECURSIVE TotalProduced(_)
TotalProduced(es) == IF es = <<>> THEN 0
                     ELSE Len(Head(es).produced) + TotalProduced(Tail(es))
RECURSIVE IsSubsequence(_, _)
IsSubsequence(s, t) ==
    IF s = <<>> THEN TRUE
    ELSE IF t = <<>> THEN FALSE
    ELSE IF Head(s) = Head(t) THEN IsSubsequence(Tail(s), Tail(t))
    ELSE IsSubsequence(s, Tail(t))

\* C1: after a complete run of a pipeline mode no two records of the final
\* result list share the active dedup key (login in the single-key modes,
\* (login, project) in extract_all_contributors).
C1_DedupInvariant ==
    pc = "done" =>
       \A a, b \in 1..Len(FinalResult) :
          a # b => DedupKey(FinalResult[a]) # DedupKey(FinalResult[b])

\* A finished run that produced more records than it kept: a duplicate was dropped.
C1_Witness ==
    /\ pc = "done"
    /\ Len(FinalResult) >= 2
    /\ TotalProduced(entries) > Len(FinalResult)

\* C2: a request whose every attempt ends in a transient fault (a status
\* other than 200/403/404, or a transport exception) makes make_request issue
\* exactly max_retries GETs and then return None, in both extractors.
AllTransient(l) == \A n \in 1..Len(l) :
                      /\ l[n][1] \notin {"decode_error", "bad_header"}
                      /\ IsResp(l[n]) => l[n][2] \in {500, 0}
C2_RetryBound ==
    (rpc = "ret" /\ AllTransient(log)) =>
       (GetCount(log) = max_retries /\ result = None)

C2_Witness ==
    /\ rpc = "ret"
    /\ AllTransient(log)
    /\ GetCount(log) = max_retries
    /\ \E n \in 1..Len(log) : log[n] = <<"resp", 0>>
    /\ \E n \in 1..Len(log) : log[n] = <<"resp", 500>>

\* C3 (as claimed): a 403 retry is not counted against max_retries: a call
\* that has seen only 403 answers, followed by a 200 answer or by nothing
\* yet, returns the payload of the 200 answer and never None.
OnlyRateLimited(l) == \A n \in 1..Len(l) :
                         /\ l[n][1] \notin {"decode_error", "bad_header"}
                         /\ IsResp(l[n]) => l[n][2] \in {403, 200}
C3_RateLimitRetryNotCounted ==
    (rpc = "ret" /\ OnlyRateLimited(log)) => result.kind # "None"

\* C4: in SimpleGitHubExtractor.make_request a 403 answer whose
\* X-RateLimit-Reset is absent, in the past or in the future is followed at
\* once by a sleep of at least 60 seconds, before any further attempt.
C4_RateLimitFloor ==
    Extractor = "Simple" =>
       \A n \in 1..Len(log) :
          (log[n] = <<"resp", 403>> /\ ~(n < Len(log) /\ log[n + 1][1] = "bad_header"))
             => /\ n < Len(log)
                /\ log[n + 1][1] = "sleep"
                /\ log[n + 1][2] >= RateLimitFloor * Second

\* A 403 with a reset 90 s ahead, slept out, and the next attempt sent.
C4_Witness ==
    /\ Extractor = "Simple"
    /\ \E n \in 1..Len(log) :
          /\ n + 2 <= Len(log)
          /\ log[n] = <<"resp", 403>>
          /\ log[n + 1] = <<"sleep", 90 * Second>>
          /\ IsGet(log[n + 2])

\* C5: in both extractors a 404 answer ends the call at that attempt: None
\* is returned, no further GET and no sleep follow.
C5_NotFoundNoRetry ==
    \A n \in 1..Len(log) :
       log[n] = <<"resp", 404>> => (n = Len(log) /\ rpc = "ret" /\ result = None)

\* A 404 on the second attempt, after a transient fault on the first.
C5_Witness ==
    /\ rpc = "ret"
    /\ attempt = 1
    /\ Len(log) > 0
    /\ log[Len(log)] = <<"resp", 404>>

\* C6: make_request never lets an exception out: whatever the attempts came
\* back with, the call ends with a decoded payload or None.
C6_NeverRaises ==
    /\ rpc \in {"idle", "admit", "send", "ret"}
    /\ result.kind \in {"None", "list", "dict"}
    /\ (rpc = "ret" /\ result.kind # "None") =>
          (Len(log) > 0 /\ log[Len(log)] = <<"resp", 200>>)

\* A call given up after a 200 body that failed to decode on the last attempt.
C6_Witness ==
    /\ rpc = "ret"
    /\ result = None
    /\ attempt = max_retries - 1
    /\ Len(log) > 0
    /\ log[Len(log)] = <<"decode_error", 0>>
    /\ \E n \in 1..Len(log) : log[n] = <<"bad_header", 0>>

\* C7: whatever the service answered, what the Contributor Fetcher with
\* limit N returns is at most N stubs, all of type 'User', forming a
\* subsequence of the response in the response's order.
C7_FetcherLimitOrder ==
    (pc = "fetched" /\ ~fetch_out.raised) =>
       /\ Len(fetch_out.list) <= fetch_limit
       /\ \A n \in 1..Len(fetch_out.list) : fetch_out.list[n].type = "User"
       /\ IsSubsequence(fetch_out.list, fetch_in.body)

\* A response of a bot and more users than the limit: cut to the limit.
C7_Witness ==
    /\ pc = "fetched"
    /\ Len(fetch_in.body) > fetch_limit
    /\ fetch_in.body[1].type = "Bot"
    /\ Len(fetch_out.list) = fetch_limit
    /\ fetch_limit = RepoContributors

\* C8: when the contributor request failed (None), came back empty, or came
\* back as a 200 answer that is no list, the Contributor Fetcher returns an
\* empty list without raising, and no further request is made for it.
C8_FetcherEmptyOnFailure ==
    [][(pc = "contributors" /\ rpc = "ret" /\ (~Truthy(result) \/ result.kind # "list"))
         => (pc' = "merge" /\ contributors_data' = <<>> /\ results' = <<>> /\ rpc' = "idle"
             /\ entries' = entries)]_vars

\* The fetcher has just returned [] for an object answered where a list was expected.
C8_Witness ==
    /\ pc = "merge"
    /\ k = 0
    /\ contributors_data = <<>>
    /\ result = ErrorObject
    /\ GetCount(log) = 1

\* C9 (as claimed): the records a catalog entry produces are exactly one per
\* stub whose profile fetch succeeded, in stub order.
C9_RecordPerFetchedProfile ==
    \A n \in 1..Len(entries) :
       Usernames(entries[n].produced) = OkLogins(entries[n].stubs)

\* C10 (as claimed): the pipeline's count of profiles it could not find is
\* the number of profile requests answered 404.
C10_ProfileNotFoundCounter ==
    pc = "done" => not_found_warnings = profile_404

\* Every record the catalog entries handed to the pipeline loop, in processing order.
RECURSIVE AllProduced(_)
AllProduced(es) == IF es = <<>> THEN <<>>
                   ELSE Head(es).produced \o AllProduced(Tail(es))

\* The first n records of recs without those whose dedup key occurred before.
RECURSIVE KeepFirst(_, _)
KeepFirst(recs, n) ==
    IF n = 0 THEN <<>>
    ELSE LET rest == KeepFirst(recs, n - 1)
         IN IF \E m \in 1..(n - 1) : DedupKey(recs[m]) = DedupKey(recs[n])
            THEN rest
            ELSE Append(rest, recs[n])

\* C11: de-duplication keeps the first-seen record: the final result list of
\* a finished run is the order-preserving subsequence of all produced records
\* made of the first record produced for each active dedup key.
C11_FirstSeenWins ==
    pc = "done" =>
       FinalResult = KeepFirst(AllProduced(entries), Len(AllProduced(entries)))

\* A finished run that kept two records in order and dropped a later,
\* different record carrying an already seen key.
C11_Witness ==
    /\ pc = "done"
    /\ Len(FinalResult) >= 2
    /\ \E a, b \in 1..Len(AllProduced(entries)) :
          /\ a < b
          /\ DedupKey(AllProduced(entries)[a]) = DedupKey(AllProduced(entries)[b])
          /\ AllProduced(entries)[a] # AllProduced(entries)[b]

\* C12 (as claimed): in extract_all_contributors a login that is a profiled
\* contributor of two different catalog entries has, in the final result
\* list, one record for each of those entries.
C12_OneRecordPerEntry ==
    (pc = "done" /\ mode = "extract_all") =>
       \A a, b \in 1..Len(entries) :
          \A x \in 1..Len(entries[a].produced) :
             \A y \in 1..Len(entries[b].produced) :
                (a # b /\ entries[a].produced[x].contributor_username
                            = entries[b].produced[y].contributor_username)
                   => \E z \in 1..Len(unique_contributors) :
                         /\ unique_contributors[z].contributor_username
                               = entries[a].produced[x].contributor_username
                         /\ unique_contributors[z].project_url
                               = entries[a].produced[x].project_url

\* C13: an exception raised while a catalog entry is processed is caught at
\* the pipeline loop and recorded as a failure of that entry; it never ends
\* the run: every catalog entry is attempted exactly once, in catalog order,
\* whatever happened to the entries before it.
C13_EveryEntryAttemptedOnce ==
    /\ [](i = Len(entries) + 1)
    /\ [](pc \in {"done", "crashed"} => Len(entries) = Len(catalog))
    /\ [][/\ (pc = "loop" /\ pc' \in {"repos", "contributors"})
               => (i' = i /\ url'.a = catalog[i].owner
                   /\ (mode # "two_stage" => url'.b = catalog[i].repo))
          /\ (entries' # entries)
               => (i' = i + 1 /\ pc' = "loop" /\ Len(entries') = Len(entries) + 1
                   /\ SubSeq(entries', 1, Len(entries)) = entries)
          /\ (i' # i) => entries' # entries]_vars

\* A finished run whose first entry failed and whose second entry produced records.
C13_Witness ==
    /\ pc = "done"
    /\ Len(entries) = 2
    /\ entries[1].state = "Failed"
    /\ entries[2].state = "Done"
    /\ entries[2].produced # <<>>

\* The "Successfully processed" figure of the final statistics:
\* run_extraction counts the catalog entries whose display name occurs in a
\* kept record; the other two modes print their counter.
SuccessfullyProcessed ==
    IF mode = "run_extraction"
    THEN Cardinality({n \in 1..Len(catalog) :
                        \E c \in 1..Len(all_contributors) :
                           all_contributors[c].project_name = catalog[n].name})
    ELSE successful

\* Number of catalog entries that ended in one of the given states.
EntriesIn(states) == Cardinality({n \in 1..Len(entries) : entries[n].state \in states})

\* C14 (as claimed): on completion the succeeded count of the summary is the
\* number of catalog entries that reached Done, zero-record entries
\* included, and the failed count is the number that reached Failed (an
\* organization given up for want of repositories is taken as Failed).
C14_SummaryCounts ==
    pc = "done" =>
       /\ SuccessfullyProcessed = EntriesIn({"Done"})
       /\ mode # "run_extraction" => failed = EntriesIn({"Failed", "Skipped"})

\* The checkpoint interval of the mode: "successful_repos % 5 == 0" in
\* extract_all_contributors, a save in every loop round in the other two.
CheckpointInterval == IF mode = "extract_all" THEN CheckpointEvery ELSE 1

\* C15 (as claimed): whenever the number of catalog entries processed so far,
\* failed and empty ones included, is a multiple of the mode's checkpoint
\* interval, the sink has been called with the current result list before
\* the next entry starts.
C15_CheckpointEveryK ==
    pc = "loop" =>
       \A n \in 1..(i - 1) :
          n % CheckpointInterval = 0 => \E s \in 1..Len(saves) : saves[s].n = n

\* C16 (as claimed): GitHubContributorExtractor sends no API GET while its
\* rate_limit_remaining is at most 1 and the time is before rate_limit_reset.
C16_HeldUntilReset ==
    [][(Extractor = "GitHub" /\ rpc = "send" /\ GetCount(log') > GetCount(log))
         => ~(rate_limit_remaining <= 1 /\ now < rate_limit_reset * Second)]_vars

\* Time slept during the events l of one call.
RECURSIVE SleepSum(_)
SleepSum(l) == IF l = <<>> THEN 0
               ELSE (IF Head(l)[1] = "sleep" THEN Head(l)[2] ELSE 0) + SleepSum(Tail(l))

\* C17 (as claimed): in SimpleGitHubExtractor two outbound GETs, retries of
\* the same request included, are at least min_delay apart.
C17_MinDelayBetweenGets ==
    Extractor = "Simple" =>
       \A a, b \in 1..Len(log) :
          (a < b /\ IsGet(log[a]) /\ IsGet(log[b]))
             => SleepSum(SubSeq(log, a, b)) >= min_delay * Second

\* The pieces of b spell 'linkedin.com' somewhere.
MentionsLinkedin(b) ==
    \E n \in 1..Len(b) :
       \/ b[n] = "linkedin.com"
       \/ (n < Len(b) /\ b[n] = "linkedin" /\ b[n + 1] = ".com")

\* C18: for every profile whose blog is a string, extract_social_links
\* gives linkedin = blog and website = '' when blog contains 'linkedin.com',
\* website = blog and linkedin = '' otherwise, and blog = the raw field.
C18_LinkDisambiguation ==
    (pc = "linked" /\ link_in.blog \notin {BlogMissing, BlogNull}) =>
       /\ ~link_out.raised
       /\ link_out.blog = link_in.blog
       /\ IF MentionsLinkedin(link_in.blog)
          THEN link_out.linkedin = link_in.blog /\ link_out.website = EmptyStr
          ELSE link_out.website = link_in.blog /\ link_out.linkedin = EmptyStr

\* A link whose 'linkedin.com' comes in two pieces, classified as linkedin.
C18_Witness ==
    /\ pc = "linked"
    /\ link_in.blog = <<"https://", "linkedin", ".com">>
    /\ link_out.linkedin = link_in.blog
    /\ link_out.website = EmptyStr

\* The entries of s of one owner, and s without repeated repositories.
OfOwner(s, owner) == LET Mine(r) == r.owner = owner IN SelectSeq(s, Mine)
RECURSIVE FirstDistinct(_, _)
FirstDistinct(s, n) ==
    IF n = 0 THEN <<>>
    ELSE LET rest == FirstDistinct(s, n - 1)
         IN IF \E m \in 1..(n - 1) : s[m].repo = s[n].repo THEN rest
            ELSE Append(rest, s[n])

\* C20: filter_repos keeps at most 3 repositories per owner and no repeated
\* (owner, repo) pair; for every owner that the chain test lets through, the
\* kept entries are the first min(3, d) distinct repositories of that owner
\* in catalog order, a repeated pair using up none of the 3 places.
C20_ThreePerOwner ==
    pc = "filtered" =>
       /\ \A a, b \in 1..Len(final_repos) : a # b => final_repos[a] # final_repos[b]
       /\ \A owner \in FilterOwners :
             LET mine == OfOwner(all_repos, owner)
                 distinct == FirstDistinct(mine, Len(mine))
                 kept == OfOwner(final_repos, owner)
             IN /\ Len(kept) <= PerOwnerLimit
                /\ ~IsNonEvm(owner) =>
                      kept = SubSeq(distinct, 1,
                                    IF Len(distinct) < PerOwnerLimit
                                    THEN Len(distinct) ELSE PerOwnerLimit)

\* An owner with a repeated pair ahead of three more repositories: the
\* repetition is dropped and three distinct repositories are kept.
C20_Witness ==
    /\ pc = "filtered"
    /\ Len(all_repos) = 5
    /\ all_repos[1] = all_repos[2]
    /\ \A n \in 1..5 : all_repos[n].owner = <<"ethereum">>
    /\ Len(FirstDistinct(all_repos, 5)) = 4
    /\ Len(final_repos) = PerOwnerLimit

\* C19: the same pipeline mode run again against an unchanged deterministic
\* mocked service and an unchanged catalog ends with a final result list of
\* the same set of dedup keys as the first run.
C19_RerunSameKeys ==
    (run = 2 /\ pc = "done") =>
       {DedupKey(FinalResult[n]) : n \in 1..Len(FinalResult)} = first_keys

\* A second run finished after a first run that kept two keys, one profile
\* fetch having failed in each.
C19_Witness ==
    /\ run = 2
    /\ pc = "done"
    /\ Cardinality(first_keys) >= 2
    /\ not_found_warnings >= 1

\* The attempt whose GET is log[n] ended in a transient fault: a status that
\* is none of 200/403/404, a transport exception, or an error raised while
\* the answer was read.
TransientAt(l, n) ==
    \/ l[n + 1][2] \in {500, 0}
    \/ (n + 2 <= Len(l) /\ l[n + 2][1] \in {"decode_error", "bad_header"})

\* C21: between attempt number a (0-based) that ended in a transient fault
\* and the next attempt of the same request, make_request of both extractors
\* sleeps exactly 2^a seconds: 1 after the first attempt, 2 after the second.
C21_ExponentialBackoff ==
    \A n, m \in 1..Len(log) :
       (n < m /\ IsGet(log[n]) /\ IsGet(log[m]) /\ log[m][2] = log[n][2] + 1
        /\ TransientAt(log, n))
          => SleepSum(SubSeq(log, n, m)) = Pow2(log[n][2]) * Second

\* Three attempts of one call, a sleep of 1 s and then one of 2 s between them.
C21_Witness ==
    /\ rpc = "ret"
    /\ GetCount(log) = max_retries
    /\ \E n, m \in 1..Len(log) :
          /\ n < m
          /\ log[n] = <<"sleep", 1 * Second>>
          /\ log[m] = <<"sleep", 2 * Second>>
          /\ IsGet(log[n + 1])
          /\ IsGet(log[m + 1])

\* C22 (as claimed): every outbound GET, each retry inside one make_request
\* call included, is preceded by an admit step of its own: between two GETs
\* of a call, and before the first, the quota tracker has been asked.
C22_AdmitBeforeEveryGet ==
    \A m \in 1..Len(log) :
       IsGet(log[m]) =>
          \E n \in 1..(m - 1) :
             /\ log[n][1] = "admit"
             /\ \A x \in (n + 1)..(m - 1) : ~IsGet(log[x])

\* C25: in GitHubContributorExtractor.make_request an attempt answered 200
\* takes exactly one off rate_limit_remaining, and an attempt that ended any
\* other way (403, 404, another status, a transport exception) leaves
\* rate_limit_remaining as it was; no attempt touches rate_limit_reset.
C25_QuotaEstimateDecrement ==
    [][(Extractor = "GitHub" /\ rpc = "send")
         => /\ rate_limit_reset' = rate_limit_reset
            /\ rate_limit_remaining' =
                  IF log'[Len(log) + 2] = <<"resp", 200>>
                  THEN rate_limit_remaining - 1
                  ELSE rate_limit_remaining]_vars

\* A call answered 500 and then 200 after a full quota report: one taken off.
C25_Witness ==
    /\ Extractor = "GitHub"
    /\ rpc = "ret"
    /\ \E n \in 1..Len(log) : log[n] = <<"resp", 500>>
    /\ log[Len(log)] = <<"resp", 200>>
    /\ rate_limit_remaining = QuotaInitial - 1
    /\ \E n \in 1..Len(log) : log[n] = <<"quota", 200>>

\* C23 (as claimed): every list handed to the sink during a run, the
\* intermediate saves of extract_all_contributors included, holds no two
\* records with the same active dedup key.
C23_CheckpointsDeduplicated ==
    \A s \in 1..Len(saves) :
       \A a, b \in 1..Len(saves[s].data) :
          a # b => DedupKey(saves[s].data[a]) # DedupKey(saves[s].data[b])

IsPrefix(s, t) == Len(s) <= Len(t) /\ SubSeq(t, 1, Len(s)) = s

\* C24: the result list only grows during a run: at every step its previous
\* contents are a prefix of its new contents (and the dedup set loses no
\* member); a write to the sink changes neither: the list handed to a
\* checkpoint is the result list as it stands after the write, and the final
\* write leaves the result list as it was.
C24_ResultOnlyGrows ==
    [][/\ IsPrefix(all_contributors, all_contributors')
       /\ seen_usernames \subseteq seen_usernames'
       /\ (saves' # saves) =>
             /\ Len(saves') = Len(saves) + 1
             /\ SubSeq(saves', 1, Len(saves)) = saves
             /\ IF pc' \in {"done", "crashed"}
                THEN /\ saves'[Len(saves')].data = unique_contributors'
                     /\ all_contributors' = all_contributors
                ELSE saves'[Len(saves')].data = all_contributors']_vars

\* Two checkpoints written, the second longer than the first.
C24_Witness ==
    /\ Len(saves) >= 2
    /\ saves[1].outcome = "written"
    /\ saves[2].outcome = "written"
    /\ Len(saves[2].data) > Len(saves[1].data)
    /\ IsPrefix(saves[1].data, all_contributors)

\* C27 (as claimed): a write to the sink that raises leaves the pipeline
\* entry point as it is: the run ends there, and the catalog entry being
\* processed is not recorded as failed on account of it.
C27_SinkFailurePropagates ==
    \A s \in 1..Len(saves) :
       saves[s].outcome = "failed" =>
          /\ pc = "crashed"
          /\ s = Len(saves)
          /\ \A n \in 1..Len(entries) : n = saves[s].n => entries[n].state # "Failed"

\* C28: in two-stage mode an organization whose repository-list request
\* failed, or came back empty or as something that is no list, is given up
\* without ending the run: no record is added and nothing is saved for it,
\* failed_orgs goes up by one, successful_orgs stays, and the loop is at the
\* next catalog entry.
C28_EmptyOrgSkipped ==
    [][(mode = "two_stage" /\ pc = "repos" /\ rpc = "ret"
        /\ (~Truthy(result) \/ result.kind # "list"))
         => /\ pc' = "loop"
            /\ i' = i + 1
            /\ failed' = failed + 1
            /\ successful' = successful
            /\ all_contributors' = all_contributors
            /\ seen_usernames' = seen_usernames
            /\ saves' = saves
            /\ Len(entries') = Len(entries) + 1
            /\ entries'[Len(entries')].produced = <<>>]_vars

\* A finished two-stage run whose first organization answered with an error
\* object or an empty list and whose second organization produced records.
C28_Witness ==
    /\ mode = "two_stage"
    /\ pc = "done"
    /\ Len(entries) = 2
    /\ entries[1].state = "Skipped"
    /\ entries[2].state = "Done"
    /\ entries[2].produced # <<>>
    /\ failed = 1
    /\ successful = 1
    /\ all_contributors = entries[2].produced

\* C29: get_top_repositories_for_blockchain(owner, repo, limit) returns at
\* most limit repositories; they are the first ones of the service's answer,
\* in the order of the answer, each carrying the queried owner.
C29_TopRepositories ==
    (pc = "topped" /\ fetch_in.kind = "list") =>
       /\ Len(top_repos) <= fetch_limit
       /\ Len(top_repos) = fetch_limit \/ Len(top_repos) = Len(fetch_in.body)
       /\ \A n \in 1..Len(top_repos) :
             /\ top_repos[n].repo = fetch_in.body[n].name
             /\ top_repos[n].stars = fetch_in.body[n].stars
             /\ top_repos[n].owner = repo_info.owner

\* An answer of more repositories than the limit, the less starred one
\* first: cut to the limit and left in that order.
C29_Witness ==
    /\ pc = "topped"
    /\ fetch_limit = TopRepoLimit
    /\ Len(fetch_in.body) > fetch_limit
    /\ Len(top_repos) = fetch_limit
    /\ top_repos[1].repo = "r2"
    /\ top_repos[2].repo = "r1"
    /\ repo_info.owner = "o2"

\* C30 (as claimed): the record SimpleGitHubExtractor builds from a profile
\* whose link is a string follows the link disambiguation rule: a link
\* containing 'linkedin.com' is in the linkedin field and the website field
\* is empty; any other link is in the website field.
C30_SimpleLinkDisambiguation ==
    [][(Extractor = "Simple" /\ mode \in PipeModes /\ pc = "profile" /\ rpc = "ret"
        /\ Truthy(result) /\ result.body[1].blog \notin {BlogMissing, BlogNull})
         => LET link == result.body[1].blog
                record == results'[Len(results')]
            IN /\ Len(results') = Len(results) + 1
               /\ IF MentionsLinkedin(link)
                  THEN record.linkedin = link /\ record.website = EmptyStr
                  ELSE record.website = link]_vars

C31_BoundedTimeout ==
    /\ rpc # "blocked"
    /\ \A n \in 1..Len(log) :
          IsGet(log[n]) => (n < Len(log) /\ IsResp(log[n + 1]))

\* C32 (as claimed): GitHubContributorExtractor does not ask the
\* quota-introspection endpoint before every call: once several
\* make_request calls have been made, fewer GETs have gone to /rate_limit
\* than make_request calls were made.
C32_OpportunisticRefresh ==
    (Extractor = "GitHub" /\ calls >= 2 /\ rpc = "ret") => quota_gets < calls

\* C33: every call of make_request, in both extractors, sends at most
\* max_retries GETs and then returns, whatever the service answers, 403 at
\* every attempt included (which is what lets a pipeline run over a finite
\* catalog end).
C33_CallBounded ==
    /\ [](GetCount(log) <= max_retries)
    /\ (rpc \in {"admit", "send"}) ~> (rpc = "ret")

\* A call of SimpleGitHubExtractor answered 403 at each of its three
\* attempts, returned with None.
C33_Witness ==
    /\ Extractor = "Simple"
    /\ rpc = "ret"
    /\ result = None
    /\ GetCount(log) = max_retries
    /\ \A n \in 1..Len(log) : IsResp(log[n]) => log[n][2] = 403
    /\ \A n \in 1..Len(log) : log[n][1] # "bad_header"

\* The record was built for catalog entry n: its project_url names the
\* entry's repository (in the two-stage mode, a repository of the entry's
\* organization).
BelongsTo(r, n) ==
    /\ r.project_url[1] = catalog[n].owner
    /\ mode # "two_stage" => r.project_url[2] = catalog[n].repo

\* C34 (as claimed): a catalog entry that ended Failed has no record in the
\* result list and has added no key to the dedup set, an organization of the
\* two-stage mode that failed after some of its repositories were merged
\* included.
C34_FailedEntryContributesNothing ==
    \A n \in 1..Len(entries) :
       entries[n].state = "Failed" =>
          /\ \A c \in 1..Len(all_contributors) : ~BelongsTo(all_contributors[c], n)
          /\ seen_usernames \subseteq
                {AllProduced(entries)[x].contributor_username :
                    x \in {y \in 1..Len(AllProduced(entries)) :
                              ~BelongsTo(AllProduced(entries)[y], n)}}
                \cup {produced[x].contributor_username : x \in 1..Len(produced)}

\* C35 (as claimed): in extract_all_contributors and in the two-stage mode no
\* catalog entry is counted both as succeeded and as failed: after i entries
\* the succeeded and the failed counter add up to i, also in runs where a
\* checkpoint write raises.
C35_CountersPartitionEntries ==
    (mode \in {"extract_all", "two_stage"} /\ pc \in {"loop", "done", "crashed"})
       => successful + failed = Len(entries)

\* C36 (as claimed): the local quota estimate of GitHubContributorExtractor
\* is never negative, also when the quota-introspection call fails while
\* the API requests succeed.
C36_QuotaEstimateNonNegative ==
    rate_limit_remaining >= 0

\* C37 (as claimed): make_request never sleeps after its last GET: when a
\* call has returned, every sleep it made (backoff or rate-limit wait) was
\* followed by another GET of the same call.
C37_NoSleepAfterLastGet ==
    rpc = "ret" =>
       \A n \in 1..Len(log) :
          log[n][1] = "sleep" => \E m \in (n + 1)..Len(log) : IsGet(log[m])

\* C38 (as claimed): in GitHubContributorExtractor.process_repository a
\* contributor whose fetched profile has a null or an absent blog still
\* yields a record, with linkedin and website both empty; the catalog entry
\* does not fail over it and keeps the records of its other contributors.
C38_NullLinkStillRecorded ==
    [][(/\ pc = "profile"
        /\ rpc = "ret"
        /\ Extractor = "GitHub"
        /\ Truthy(result)
        /\ result.body[1].blog \in {BlogNull, BlogMissing})
       => /\ entries' = entries
          /\ Len(results') = Len(results) + 1
          /\ SubSeq(results', 1, Len(results)) = results
          /\ results'[Len(results')].contributor_username = contributors_data[k].login
          /\ results'[Len(results')].linkedin = EmptyStr
          /\ results'[Len(results')].website = EmptyStr]_vars

\* The owner, lower-cased, contains the name of a non-EVM chain.
NamesNonEvmChain(owner) ==
    \E n \in 1..Len(owner) : \E chain \in non_evm_chains : Lower(owner[n]) = chain

OwnersIn(repos) == {repos[n].owner : n \in 1..Len(repos)}

\* C39: filter_repos drops an entry for chain reasons exactly when its
\* owner, lower-cased, contains a non-EVM chain name: no entry kept or
\* generated has such an owner, and every owner of the input without such a
\* name has at least one entry in the output.
C39_NonEvmOwnersDropped ==
    /\ \A owner \in DOMAIN filtered_repos : ~NamesNonEvmChain(owner)
    /\ pc = "filtered" =>
          /\ \A owner \in OwnersIn(final_repos) : ~NamesNonEvmChain(owner)
          /\ \A owner \in OwnersIn(all_repos) :
                ~NamesNonEvmChain(owner) => owner \in OwnersIn(final_repos)

\* A finished filter run whose input held an entry of Solana-labs and
\* entries of two other owners.
C39_Witness ==
    /\ pc = "filtered"
    /\ <<"Solana", "-labs">> \in OwnersIn(all_repos)
    /\ Cardinality(OwnersIn(all_repos)) = 3
    /\ Cardinality(OwnersIn(final_repos)) = 2

\* C40: in the single-key modes of SimpleGitHubExtractor (run_extraction and
\* the two-stage mode) seen_usernames is exactly the set of the
\* contributor_username values of the records in all_contributors, between
\* any two processed repositories and after failed entries or organizations
\* too (the two are only changed together, when a repository is merged).
C40_SeenMatchesResult ==
    mode \in {"run_extraction", "two_stage"} =>
       seen_usernames = {all_contributors[n].contributor_username :
                            n \in 1..Len(all_contributors)}

\* A single-key run between two entries, after an entry that failed, with
\* records kept.
C40_Witness ==
    /\ mode \in {"run_extraction", "two_stage"}
    /\ pc = "loop"
    /\ \E n \in 1..Len(entries) : entries[n].state = "Failed"
    /\ seen_usernames # {}
    /\ all_contributors # <<>>

====
